---- MODULE Spec2Model ----
(***************************************************************************)
(* Model of the two Streamlit programs of the repository:                  *)
(*   src/toushi.py     the timing-strategy script: download a price        *)
(*                     series, calculate_indicators, analyze_signals,      *)
(*                     render the result;                                  *)
(*   src/kaiki_app.py  the regression app: run_regression and main().      *)
(*                                                                         *)
(* Numbers.  Prices, volumes and MACD values are integers.  A comparison   *)
(* of floats is the same comparison of the integers; the one float         *)
(* product of the script, Volume_MA20 * 1.5, is compared after doubling   *)
(* both sides.  A missing value of pandas is the value NaN below.  The     *)
(* relative strength of the RSI is the only float that can be infinite or  *)
(* undefined (x/0), and it is modelled as a tagged value.                  *)
(*                                                                         *)
(* Price series.  A downloaded series is given by its number of bars, the  *)
(* weekday of its first bar and the values the trailing rows of the        *)
(* indicator table take (a "scenario"); which rows of the tables exist     *)
(* is computed from the window lengths as pandas does.                     *)
(***************************************************************************)
EXTENDS Integers, Sequences, FiniteSets, TLC

(* ----------------------------- bounds --------------------------------- *)
\* longest downloaded series, in daily bars
MaxBars == 210
\* the latest close of every scenario
RefPrice == 3
\* the moving averages of the latest row lie within Spread of the latest close
Spread == 1

(* ------------------------ program constants --------------------------- *)
SMA200_WINDOW == 200
SMA50_WINDOW == 50
SMA20_WINDOW == 20
RSI_WINDOW == 14
VOLUME_MA_WINDOW == 20
HIGH_WINDOW == 60
\* ewm(span=.., adjust=False): min_periods is left at its default
EWM_MIN_PERIODS == 0
\* resample('W-FRI'): a week holds the bars of Monday..Friday
TradingDaysPerWeek == 5
\* df.iloc[-10] and df.iloc[-5]
MID_ILOC == 10
SHORT_ILOC == 5
RSI_PULLBACK_LOW == 30
RSI_PULLBACK_HIGH == 45
RSI_OVERBOUGHT == 70
MAX_SCORE == 4
\* a missing value (numpy.nan) in a column
NaN == -1000

\* the slow span of the MACD: ewm(span=26, adjust=False)
MACD_SLOW_SPAN == 26

\* pc .. exception: one run of the toushi.py script;  reg: one call of
\* run_regression (kaiki_app.py);  app: the reruns of main() (kaiki_app.py)
VARIABLES pc, raw, df, df_weekly, analysis_result, exception, reg, app

vars == <<pc, raw, df, df_weekly, analysis_result, exception, reg, app>>

(* ----------------------------- helpers -------------------------------- *)
Min(a, b) == IF a < b THEN a ELSE b

Max(a, b) == IF a > b THEN a ELSE b

\* Python's  s * k  for a one-glyph string s: k copies, none when k <= 0
Repeat(glyph, k) == [i \in 1..Max(k, 0) |-> glyph]

\* f"{x:.2f}" of an integer-valued price, in hundredths
Fmt2(x) == x * 100

\* f"{x:.1f}" of an integer-valued RSI, in tenths
Fmt1(x) == x * 10

\* the values of a moving average of the latest row
Near == (RefPrice - Spread)..(RefPrice + Spread)

\* the values of a moving average some bars earlier
Older == (RefPrice - Spread - 1)..RefPrice

MACDValues == {-1, 0, 1}

\* trailing 14-bar <<average gain, average loss>>, in units of 1/14
GainLossCases ==
    {<<0, 0>>, <<1, 0>>, <<0, 1>>, <<3, 7>>, <<9, 11>>, <<1, 1>>, <<7, 3>>}

\* the trailing rows at or beyond this many bars before the latest carry the
\* "old" SMA50/SMA20 value; the nearer ones carry the latest one
Turns == {SHORT_ILOC - 1, SHORT_ILOC, MID_ILOC - 1, MID_ILOC, MID_ILOC + 1}

\* an uptrend without a signal: close above a flat SMA200, weekly MACD > 0
DefaultScenario ==
    [close |-> RefPrice, sma200 |-> RefPrice - 1, sma50 |-> RefPrice,
     sma20 |-> RefPrice, band |-> 1, gain |-> 1, loss |-> 1,
     macd |-> 0, macd_signal |-> 0, volume |-> 3, volume_ma20 |-> 2,
     high60 |-> RefPrice + 1, p_close |-> RefPrice, p_sma200 |-> RefPrice - 1,
     p_macd |-> 0, p_macd_signal |-> 0,
     old |-> RefPrice, turn |-> MID_ILOC + 1, wm |-> 1]

\* the columns the score reads, varied
ScoreScenarios ==
    {[DefaultScenario EXCEPT !.sma200 = a, !.p_sma200 = a,
                             !.wm = w, !.sma20 = m, !.band = b,
                             !.gain = gl[1], !.loss = gl[2],
                             !.macd = x, !.p_macd = px, !.volume = v] :
        a \in Near, w \in MACDValues, m \in {RefPrice, RefPrice + 1},
        b \in {0, 1}, gl \in GainLossCases, x \in MACDValues,
        px \in MACDValues, v \in {3, 4}}

\* the close and the SMA200 of the latest and the previous row, varied
BreakScenarios ==
    {[DefaultScenario EXCEPT !.sma200 = a, !.p_sma200 = pa, !.p_close = pc0,
                             !.wm = w] :
        a \in Near, pa \in Near, pc0 \in Near, w \in MACDValues}

\* the columns the mid and short trend read, varied
TrendScenarios ==
    {[DefaultScenario EXCEPT !.sma50 = a, !.sma20 = m, !.old = o, !.turn = t] :
        a \in Near, m \in Near, o \in Older, t \in Turns}

\* the other series: only the weekly MACD varies
ShortScenarios ==
    {[DefaultScenario EXCEPT !.wm = w] : w \in MACDValues}

\* The score columns are varied on the longest series starting on a Monday,
\* the trend columns on every series starting on a Monday that yields an
\* indicator row.
Scenarios(n, first) ==
    IF n < SMA200_WINDOW \/ first # 0 THEN ShortScenarios
    ELSE IF n = MaxBars
         THEN ScoreScenarios \cup BreakScenarios \cup TrendScenarios
    ELSE TrendScenarios

NoData == [n |-> 0, first |-> 0, s |-> DefaultScenario]

NoResult == [raised |-> "none"]

(* ------------------- calculate_indicators (toushi.py) ------------------ *)
(* A column is a value per row.  The value of a row is missing (NaN)       *)
(* exactly where pandas leaves it undefined: a rolling window is undefined  *)
(* until it is full, an exponential mean is defined from its first         *)
(* observation.  The downloaded columns hold no missing value.             *)

\* Series.rolling(window=w): min_periods is w, row i (1-based) is defined
\* once w observations are in the window
RollingValid(i, window) == i >= window

\* mutant: the exponential mean is undefined until the slow span is full
EwmValidAfterSlowSpan(i) == i >= MACD_SLOW_SPAN

\* Series.ewm(span=.., adjust=False).mean(): defined from the first observation
EwmValid(i) == i >= Max(EWM_MIN_PERIODS, 1)

\* the SMA50/SMA20 of the row k bars before the latest one
SmaAt(s, k, latest_value) == IF k >= s.turn THEN s.old ELSE latest_value

\* gain / loss of two float columns: x/0 is inf, 0/0 and NaN/.. are NaN
FloatDiv(g, l) ==
    IF g = NaN \/ l = NaN THEN [kind |-> "nan", num |-> 0, den |-> 1]
    ELSE IF l = 0
         THEN (IF g = 0 THEN [kind |-> "nan", num |-> 0, den |-> 1]
                        ELSE [kind |-> "inf", num |-> 1, den |-> 0])
         ELSE [kind |-> "num", num |-> g, den |-> l]

\* mutant: an infinite quotient is replaced too
FillNaAndInf0(rs) ==
    IF rs.kind \in {"nan", "inf"} THEN [kind |-> "num", num |-> 0, den |-> 1]
    ELSE rs

\* rs.fillna(0): only a missing value is replaced, an infinite one is kept
FillNa0(rs) ==
    IF rs.kind = "nan" THEN [kind |-> "num", num |-> 0, den |-> 1] ELSE rs

\* 100 - (100 / (1 + rs)); the gain/loss cases make the quotient exact
RsiOf(rs) ==
    IF rs.kind = "inf" THEN 100
    ELSE 100 - ((100 * rs.den) \div (rs.den + rs.num))

\* the local series  gain  and  loss  at row i of a series r
Gain(r, i) == IF RollingValid(i, RSI_WINDOW) THEN r.s.gain ELSE NaN

Loss(r, i) == IF RollingValid(i, RSI_WINDOW) THEN r.s.loss ELSE NaN

\* df['RSI'] at row i; fillna leaves no missing value in it
RSIColumn(r, i) == RsiOf(FillNa0(FloatDiv(Gain(r, i), Loss(r, i))))

\* row i of the daily table has a value in every column
DailyRowValid(i) ==
    /\ RollingValid(i, SMA200_WINDOW)
    /\ RollingValid(i, SMA50_WINDOW)
    /\ RollingValid(i, SMA20_WINDOW)
    /\ RollingValid(i, VOLUME_MA_WINDOW)
    /\ RollingValid(i, HIGH_WINDOW)
    /\ EwmValid(i)

\* row i (1-based) of the daily table, for a row with every column defined
IndicatorRow(r, i) ==
    LET s == r.s
        k == r.n - i
        sma20 == SmaAt(s, k, s.sma20)
    IN [Close |-> IF k = 0 THEN s.close ELSE s.p_close,
        Volume |-> s.volume,
        SMA200 |-> IF k = 0 THEN s.sma200 ELSE s.p_sma200,
        SMA50 |-> SmaAt(s, k, s.sma50),
        SMA20 |-> sma20,
        BB_UPPER |-> sma20 + s.band,
        BB_LOWER |-> sma20 - s.band,
        RSI |-> RSIColumn(r, i),
        MACD |-> IF i = 1 THEN 0 ELSE IF k = 0 THEN s.macd ELSE s.p_macd,
        MACD_SIGNAL |-> IF i = 1 THEN 0
                        ELSE IF k = 0 THEN s.macd_signal ELSE s.p_macd_signal,
        Volume_MA20 |-> s.volume_ma20,
        High_60d |-> s.high60]

\* the Friday-anchored week (0-based) of daily bar i
WeekOf(r, i) == (r.first + i - 1) \div TradingDaysPerWeek

\* df.resample('W-FRI').agg(..): one bin per week from the first bar's week to
\* the last bar's; the bin of week j, as the daily bars lo..hi it aggregates
WeekBars(r, j) ==
    [lo |-> Max(1, TradingDaysPerWeek * (j - 1) - r.first + 1),
     hi |-> Min(r.n, TradingDaysPerWeek * j - r.first)]

\* .agg(..).dropna(): the bins that hold a bar, in order (an empty bin
\* aggregates to NaN and is dropped)
Resample(r) ==
    SelectSeq([j \in 1..(IF r.n = 0 THEN 0 ELSE WeekOf(r, r.n) + 1) |->
                  WeekBars(r, j)],
              LAMBDA bin : bin.lo <= bin.hi)

\* row w of the weekly table: 'Close': 'last', and MACD = exp1_w - exp2_w, both
\* means seeded by the first weekly close
WeeklyRow(r, bins, w) ==
    [Close |-> IF bins[w].hi = r.n THEN r.s.close ELSE r.s.p_close,
     MACD |-> IF w = 1 THEN 0 ELSE r.s.wm]

\* df.dropna(): the positions 1..n of the daily table with a value in every
\* column, in order
DailyKept(n) == SelectSeq([i \in 1..n |-> i], DailyRowValid)

\* df_weekly.dropna(): the positions 1..n of the weekly table with a MACD
WeeklyKept(n) == SelectSeq([i \in 1..n |-> i], EwmValid)

\* calculate_indicators(df): <<df.dropna(), df_weekly.dropna()>>
calculate_indicators(r) ==
    LET rows == DailyKept(r.n)
        bins == Resample(r)
        weeks == WeeklyKept(Len(bins))
    IN <<[j \in 1..Len(rows) |-> IndicatorRow(r, rows[j])],
         [j \in 1..Len(weeks) |-> WeeklyRow(r, bins, weeks[j])]>>

(* --------------------- analyze_signals (toushi.py) --------------------- *)
\* table.iloc[-k]: the k-th row from the end; IndexError when there is none
IlocRaises(table, k) == Len(table) < k

Iloc(table, k) == table[Len(table) - k + 1]

\* mutant: a close below the SMA200 counts as a downtrend only when the weekly
\* MACD agrees
LongTrendWeeklyGated(latest, latest_weekly) ==
    IF latest.Close > latest.SMA200 /\ latest_weekly.MACD > 0 THEN "up"
    ELSE IF latest.Close < latest.SMA200 /\ latest_weekly.MACD <= 0 THEN "down"
    ELSE "neutral"

\* trends['long']:  "up" is the script's "🟢 上昇基調", "down" its
\* "🔴 下降基調", "neutral" its "🟡 中立/方向性不定"
LongTrend(latest, latest_weekly) ==
    IF latest.Close > latest.SMA200 /\ latest_weekly.MACD > 0 THEN "up"
    ELSE IF latest.Close < latest.SMA200 THEN "down"
    ELSE "neutral"

\* `a and b` evaluates b, and with it table.iloc[-k], only when a holds
SlopeRaises(table, close, sma, k) == close > sma /\ IlocRaises(table, k)

\* trends['mid']
MidTrend(table, latest) ==
    IF latest.Close > latest.SMA50
       /\ latest.SMA50 > Iloc(table, MID_ILOC).SMA50 THEN "up"
    ELSE IF latest.Close < latest.SMA50 THEN "down"
    ELSE "neutral"

\* trends['short']
ShortTrend(table, latest) ==
    IF latest.Close > latest.SMA20
       /\ latest.SMA20 > Iloc(table, SHORT_ILOC).SMA20 THEN "up"
    ELSE IF latest.Close < latest.SMA20 THEN "down"
    ELSE "neutral"

GoldenCross(latest, previous) ==
    previous.MACD < previous.MACD_SIGNAL /\ latest.MACD > latest.MACD_SIGNAL

DeadCross(latest, previous) ==
    previous.MACD > previous.MACD_SIGNAL /\ latest.MACD < latest.MACD_SIGNAL

BBLowerTouch(latest) == latest.Close <= latest.BB_LOWER

RSIPullback(latest) ==
    RSI_PULLBACK_LOW <= latest.RSI /\ latest.RSI <= RSI_PULLBACK_HIGH

\* latest['Volume'] > latest['Volume_MA20'] * 1.5
VolumeSurge(latest) == 2 * latest.Volume > 3 * latest.Volume_MA20

\* signals['buy'], in the order of the appends
BuySignals(long, latest, previous) ==
    (IF long = "up"
     THEN <<(<<"LONG_TREND_OK">>)>>
          \o (IF BBLowerTouch(latest) THEN <<(<<"BB_LOWER_TOUCH">>)>> ELSE <<>>)
          \o (IF RSIPullback(latest)
              THEN <<(<<"RSI_PULLBACK", Fmt1(latest.RSI)>>)>> ELSE <<>>)
     ELSE <<>>)
    \o (IF GoldenCross(latest, previous)
        THEN <<(<<"MACD_GOLDEN_CROSS">>)>>
             \o (IF VolumeSurge(latest)
                 THEN <<(<<"VOLUME_SURGE_CROSS">>)>> ELSE <<>>)
        ELSE <<>>)

\* mutant: the golden cross is listed but scores only with a volume surge
ScoreCrossUnscored(long, latest, previous) ==
    (IF long = "up" /\ BBLowerTouch(latest) THEN 1 ELSE 0)
    + (IF long = "up" /\ RSIPullback(latest) THEN 1 ELSE 0)
    + (IF GoldenCross(latest, previous) /\ VolumeSurge(latest) THEN 1 ELSE 0)

\* the accumulated  score  after the buy rules
Score(long, latest, previous) ==
    (IF long = "up" /\ BBLowerTouch(latest) THEN 1 ELSE 0)
    + (IF long = "up" /\ RSIPullback(latest) THEN 1 ELSE 0)
    + (IF GoldenCross(latest, previous) THEN 1 ELSE 0)
    + (IF GoldenCross(latest, previous) /\ VolumeSurge(latest) THEN 1 ELSE 0)

\* mutant: the stop-loss warning also fires with the close on the SMA200
SellSignalsStopLossAtSMA200(long, latest, previous) ==
    (IF long = "up" THEN <<>> ELSE <<(<<"TREND_UNFAVORABLE">>)>>)
    \o (IF latest.Close >= latest.BB_UPPER
        THEN <<(<<"BB_UPPER_TOUCH">>)>> ELSE <<>>)
    \o (IF latest.RSI >= RSI_OVERBOUGHT
        THEN <<(<<"RSI_OVERBOUGHT", Fmt1(latest.RSI)>>)>> ELSE <<>>)
    \o (IF DeadCross(latest, previous)
        THEN <<(<<"MACD_DEAD_CROSS">>)>> ELSE <<>>)
    \o (IF previous.Close > previous.SMA200 /\ latest.Close <= latest.SMA200
        THEN <<(<<"STOP_LOSS_SMA200">>)>> ELSE <<>>)

\* signals['sell'], in the order of the appends
SellSignals(long, latest, previous) ==
    (IF long = "up" THEN <<>> ELSE <<(<<"TREND_UNFAVORABLE">>)>>)
    \o (IF latest.Close >= latest.BB_UPPER
        THEN <<(<<"BB_UPPER_TOUCH">>)>> ELSE <<>>)
    \o (IF latest.RSI >= RSI_OVERBOUGHT
        THEN <<(<<"RSI_OVERBOUGHT", Fmt1(latest.RSI)>>)>> ELSE <<>>)
    \o (IF DeadCross(latest, previous)
        THEN <<(<<"MACD_DEAD_CROSS">>)>> ELSE <<>>)
    \o (IF previous.Close > previous.SMA200 /\ latest.Close < latest.SMA200
        THEN <<(<<"STOP_LOSS_SMA200">>)>> ELSE <<>>)

Advice(long, latest) ==
    [buy_targets |->
        IF long = "up"
        THEN <<(<<"BB_LOWER", Fmt2(latest.BB_LOWER)>>),
               (<<"SMA20", Fmt2(latest.SMA20)>>),
               (<<"SMA50", Fmt2(latest.SMA50)>>)>>
        ELSE <<(<<"PULLBACK_BUY_NOT_RECOMMENDED">>)>>,
     sell_targets |-> <<(<<"BB_UPPER", Fmt2(latest.BB_UPPER)>>),
                        (<<"HIGH_60D", Fmt2(latest.High_60d)>>)>>]

\* mutant: the score is capped but not gated by the long trend
FinalScoreUngated(long, score) == Min(score, MAX_SCORE)

FinalScore(long, score) == IF long = "up" THEN Min(score, MAX_SCORE) ELSE 0

\* mutant: the empty glyphs are counted against a maximum of 5
StarRatingOfFive(final_score) ==
    Repeat("filled", final_score) \o Repeat("empty", 5 - final_score)

\* "★" * final_score + "☆" * (4 - final_score)
StarRating(final_score) ==
    Repeat("filled", final_score) \o Repeat("empty", 4 - final_score)

Comment(final_score, long) ==
    IF final_score >= 3 THEN "STRONG_BUY"
    ELSE IF final_score >= 1 THEN "BUYABLE_PULLBACK"
    ELSE IF long = "down" THEN "DOWNTREND_DISCOURAGED"
    ELSE "NO_CLEAR_SIGNAL"

\* the body of analyze_signals once  latest, previous, latest_weekly  are read
Evaluate(table, latest, previous, latest_weekly) ==
    LET long == LongTrend(latest, latest_weekly)
        final_score == FinalScore(long, Score(long, latest, previous))
    IN IF SlopeRaises(table, latest.Close, latest.SMA50, MID_ILOC)
          \/ SlopeRaises(table, latest.Close, latest.SMA20, SHORT_ILOC)
       THEN [raised |-> "IndexError"]
       ELSE [raised |-> "none",
             star_rating |-> StarRating(final_score),
             score |-> final_score,
             comment |-> Comment(final_score, long),
             signals |-> [buy |-> BuySignals(long, latest, previous),
                          sell |-> SellSignals(long, latest, previous),
                          neutral |-> <<>>],
             trends |-> [long |-> long,
                         mid |-> MidTrend(table, latest),
                         short |-> ShortTrend(table, latest)],
             advice |-> Advice(long, latest)]

\* analyze_signals(df, df_weekly): the returned dict, or the exception raised
analyze_signals(table, weekly) ==
    IF IlocRaises(table, 1) \/ IlocRaises(table, 2) \/ IlocRaises(weekly, 1)
    THEN [raised |-> "IndexError"]
    ELSE Evaluate(table, Iloc(table, 1), Iloc(table, 2), Iloc(weekly, 1))

\* the keys of the script's score_descriptions
ScoreDescriptionKeys == {4, 3, 2, 1, 0}

(* -------------------- run_regression (kaiki_app.py) -------------------- *)
(* A dataset is a kind per column: "numeric" (no gap), "gaps" (numeric with *)
(* missing cells), "empty" (every cell missing) or "text" (object dtype).   *)
(* target_var and feature_vars are any names, also one that is no column.   *)
Columns == {"y", "x1", "x2"}

Names == Columns \cup {"zz"}

Kinds == {"numeric", "gaps", "empty", "text"}

Datasets == [Columns -> Kinds]

NameOrder == <<"y", "x1", "x2", "zz">>

\* the feature lists: every selection of names, in column order
ListOf(S) == SelectSeq(NameOrder, LAMBDA c : c \in S)

FeatureLists == {ListOf(S) : S \in SUBSET Names}

\* the classes a library call raises here; all derive from Exception
ExceptionClasses == {"KeyError", "TypeError", "ValueError", "MemoryError"}

\* column.fillna(column.mean()): gaps are filled; a column without a value has
\* no mean and stays missing; a text column is left as it is
Fill(kind) == IF kind = "gaps" THEN "numeric" ELSE kind

\* line 118: df[feature_vars] raises KeyError for a name that is no column;
\* DataFrame.mean() over a text column raises TypeError (pandas >= 2) or skips
\* the column (older pandas)
ImputeXRaises(d, fs) ==
    IF \E i \in 1..Len(fs) : fs[i] \notin Columns THEN {"KeyError"}
    ELSE IF \E i \in 1..Len(fs) : d[fs[i]] = "text" THEN {"TypeError", "none"}
    ELSE {"none"}

\* line 119: df[target_var] raises KeyError for a name that is no column;
\* Series.mean() of a text column raises TypeError
ImputeYRaises(d, t) ==
    IF t \notin Columns THEN {"KeyError"}
    ELSE IF d[t] = "text" THEN {"TypeError"}
    ELSE {"none"}

\* lines 118-119, in order: what the imputation raises ("none": it passes)
ImputeRaises(d, t, fs) ==
    (ImputeXRaises(d, fs) \ {"none"})
    \cup (IF "none" \in ImputeXRaises(d, fs) THEN ImputeYRaises(d, t) ELSE {})

\* LinearRegression().fit(X, y) validates its input: no feature, a missing
\* value or a text cell in X, or a missing value in y, raise ValueError
FitRaises(X, y) ==
    IF Len(X) = 0 \/ (\E i \in 1..Len(X) : X[i] \in {"empty", "text"})
       \/ y \in {"empty", "text"}
    THEN {"ValueError"}
    ELSE {"none"}

\* every call into pandas/sklearn allocates and may raise MemoryError
MayRaise(outcomes) == outcomes \cup {"MemoryError"}

\* mutant: the handler is written  except ValueError
CaughtValueErrorOnly(exc) == exc = "ValueError"

\* `except Exception as e`: the classes the handler catches
Caught(exc) == exc \in ExceptionClasses

\* f"分析中にエラーが発生しました: {e}"
ErrorMessage(exc) == <<"ANALYSIS_ERROR", exc>>

\* the locals the return statement reads
ResultLocals == {"model", "X", "y", "y_pred", "mse", "r2", "coef_df"}

\* coef_df: one row per feature, with the interpretation column added
CoefTable(fs) ==
    [i \in 1..Len(fs) |->
        [name |-> fs[i], coef |-> "model.coef_",
         std_coef |-> "model_scaled.coef_", corr |-> "corr",
         interpretation |-> "explain_correlation"]]

NoCall ==
    [pc |-> "idle", df |-> [c \in Columns |-> "numeric"], target_var |-> "y",
     feature_vars |-> <<>>, X |-> <<>>, y |-> "unset", locals |-> {},
     coef_df |-> <<>>, raised |-> "none", raised_in |-> "none",
     result |-> [status |-> "none"]]

\* a statement group of the try body raises exc: control goes to the handler
Raise(exc, step) ==
    reg' = [reg EXCEPT !.pc = "except", !.raised = exc, !.raised_in = step]

(* --------------------------- main (kaiki_app.py) ----------------------- *)
\* the files the uploader hands to main(): none, a CSV without a data row, a
\* file read_csv cannot read, a CSV with data
Uploads == {"none", "empty", "unreadable", "data"}

\* the datasets read from an uploaded CSV with data
UploadedDatasets ==
    {[c \in Columns |-> k] : k \in {"numeric", "gaps", "empty"}}
    \cup {[c \in Columns |-> IF c = "x1" THEN "text" ELSE "numeric"]}

\* 'analysis_results' in st.session_state
HasResults(session_state) ==
    \E kv \in session_state : kv[1] = "analysis_results"

\* del st.session_state['analysis_results'], guarded by the membership test
DelResults(session_state) ==
    {kv \in session_state : kv[1] # "analysis_results"}

\* st.session_state['analysis_results'] = results
SetResults(session_state, results) ==
    DelResults(session_state) \cup {<<"analysis_results", results>>}

\* between two reruns: session_state is what outlives a rerun;  shown  is what
\* display_analysis_results was last called with in the rerun that ended;
\* failed_since  records a failure since the stored result was stored
NoRerun ==
    [pc |-> "idle", uploaded_file |-> "none",
     df |-> [c \in Columns |-> "numeric"], target_var |-> "y",
     feature_vars |-> <<>>, run_button |-> FALSE, session_state |-> {},
     shown |-> {}, failure |-> "none", failed_since |-> FALSE]

(* ------------------------ the script (toushi.py) ----------------------- *)
Init ==
    /\ pc = "start"
    /\ raw = NoData
    /\ df = <<>>
    /\ df_weekly = <<>>
    /\ analysis_result = NoResult
    /\ exception = "none"
    /\ reg = NoCall
    /\ app = NoRerun

\* yf.download returns a series; an empty one ends the run with a message
Download ==
    /\ pc = "start"
    /\ \E n \in 0..MaxBars, first \in 0..(TradingDaysPerWeek - 1) :
         \E s \in Scenarios(n, first) :
            /\ n = 0 => (first = 0 /\ s = DefaultScenario)
            /\ raw' = [n |-> n, first |-> first, s |-> s]
            /\ pc' = IF n = 0 THEN "no_data" ELSE "downloaded"
    /\ UNCHANGED <<df, df_weekly, analysis_result, exception, reg, app>>

\* yf.download raises (no network, bad symbol): the script's except clause
DownloadFails ==
    /\ pc = "start"
    /\ pc' = "error"
    /\ exception' = "DownloadError"
    /\ UNCHANGED <<raw, df, df_weekly, analysis_result, reg, app>>

\* df, df_weekly = calculate_indicators(data)
CalculateIndicators ==
    /\ pc = "downloaded"
    /\ LET tables == calculate_indicators(raw)
       IN /\ df' = tables[1]
          /\ df_weekly' = tables[2]
    /\ pc' = "indicators"
    /\ UNCHANGED <<raw, analysis_result, exception, reg, app>>

\* analysis_result = analyze_signals(df, df_weekly); an exception is caught by
\* the script's except clause, which reports it with st.error
AnalyzeSignals ==
    /\ pc = "indicators"
    /\ LET r == analyze_signals(df, df_weekly)
       IN IF r.raised = "none"
          THEN /\ analysis_result' = r
               /\ pc' = "analyzed"
               /\ UNCHANGED exception
          ELSE /\ exception' = r.raised
               /\ pc' = "error"
               /\ UNCHANGED analysis_result
    /\ UNCHANGED <<raw, df, df_weekly, reg, app>>

\* the result is shown: score_descriptions[analysis_result['score']] raises
\* KeyError for a score that is no key
Render ==
    /\ pc = "analyzed"
    /\ IF analysis_result.score \in ScoreDescriptionKeys
       THEN pc' = "rendered" /\ UNCHANGED exception
       ELSE pc' = "error" /\ exception' = "KeyError"
    /\ UNCHANGED <<raw, df, df_weekly, analysis_result, reg, app>>

\* Streamlit runs the script again from the top on the next input
Rerun ==
    /\ pc \in {"no_data", "rendered", "error"}
    /\ pc' = "start"
    /\ raw' = NoData
    /\ df' = <<>>
    /\ df_weekly' = <<>>
    /\ analysis_result' = NoResult
    /\ exception' = "none"
    /\ UNCHANGED <<reg, app>>

Next ==
    \/ Download
    \/ DownloadFails
    \/ CalculateIndicators
    \/ AnalyzeSignals
    \/ Render
    \/ Rerun

Spec == Init /\ [][Next]_vars

(* ------------------- a call of run_regression, by steps ---------------- *)
toushi == <<pc, raw, df, df_weekly, analysis_result, exception>>

\* run_regression(df, target_var, feature_vars) is entered
Call ==
    /\ reg.pc = "idle"
    /\ \E d \in Datasets, t \in Names, fs \in FeatureLists :
         reg' = [NoCall EXCEPT !.pc = "impute", !.df = d, !.target_var = t,
                               !.feature_vars = fs]
    /\ UNCHANGED <<toushi, app>>

\* X = df[feature_vars].fillna(..);  y = df[target_var].fillna(..)
Impute ==
    /\ reg.pc = "impute"
    /\ \E exc \in MayRaise(ImputeRaises(reg.df, reg.target_var,
                                        reg.feature_vars)) :
         IF exc = "none"
         THEN reg' = [reg EXCEPT
                        !.pc = "fit",
                        !.X = [i \in 1..Len(reg.feature_vars) |->
                                  Fill(reg.df[reg.feature_vars[i]])],
                        !.y = Fill(reg.df[reg.target_var]),
                        !.locals = {"X", "y"}]
         ELSE Raise(exc, "impute")
    /\ UNCHANGED <<toushi, app>>

\* model.fit(X, y);  y_pred = model.predict(X)
Fit ==
    /\ reg.pc = "fit"
    /\ \E exc \in MayRaise(FitRaises(reg.X, reg.y)) :
         IF exc = "none"
         THEN reg' = [reg EXCEPT !.pc = "evaluate",
                                 !.locals = @ \cup {"model", "y_pred"}]
         ELSE Raise(exc, "fit")
    /\ UNCHANGED <<toushi, app>>

\* mse = mean_squared_error(y, y_pred);  r2 = r2_score(y, y_pred)
EvaluateModel ==
    /\ reg.pc = "evaluate"
    /\ \E exc \in MayRaise({"none"}) :
         IF exc = "none"
         THEN reg' = [reg EXCEPT !.pc = "standardize",
                                 !.locals = @ \cup {"mse", "r2"}]
         ELSE Raise(exc, "evaluate")
    /\ UNCHANGED <<toushi, app>>

\* X_scaled = scaler.fit_transform(X);  model_scaled.fit(X_scaled, y)
Standardize ==
    /\ reg.pc = "standardize"
    /\ \E exc \in MayRaise({"none"}) :
         IF exc = "none"
         THEN reg' = [reg EXCEPT !.pc = "coef_table",
                                 !.locals = @ \cup {"model_scaled"}]
         ELSE Raise(exc, "standardize")
    /\ UNCHANGED <<toushi, app>>

\* coef_df = pd.DataFrame({..}) with the correlations, then the
\* interpretation column
BuildCoefTable ==
    /\ reg.pc = "coef_table"
    /\ \E exc \in MayRaise({"none"}) :
         IF exc = "none"
         THEN reg' = [reg EXCEPT !.pc = "return",
                                 !.coef_df = CoefTable(reg.feature_vars),
                                 !.locals = @ \cup {"coef_df"}]
         ELSE Raise(exc, "coef_table")
    /\ UNCHANGED <<toushi, app>>

\* return {"status": "success", ...}
ReturnSuccess ==
    /\ reg.pc = "return"
    /\ ResultLocals \subseteq reg.locals
    /\ reg' = [reg EXCEPT
                 !.pc = "returned",
                 !.result = [status |-> "success", model |-> "model",
                             X |-> reg.X, y |-> reg.y, y_pred |-> "y_pred",
                             mse |-> "mse", r2 |-> "r2",
                             coef_df |-> reg.coef_df,
                             intercept |-> "model.intercept_"]]
    /\ UNCHANGED <<toushi, app>>

\* except Exception as e: return {"status": "error", "message": ..}; an
\* exception the clause does not catch leaves the function
Except ==
    /\ reg.pc = "except"
    /\ IF Caught(reg.raised)
       THEN reg' = [reg EXCEPT !.pc = "returned",
                               !.result = [status |-> "error",
                                           message |->
                                               ErrorMessage(reg.raised)]]
       ELSE reg' = [reg EXCEPT !.pc = "escaped"]
    /\ UNCHANGED <<toushi, app>>

\* the caller is done with the result; the next call starts afresh
NextCall ==
    /\ reg.pc \in {"returned", "escaped"}
    /\ reg' = NoCall
    /\ UNCHANGED <<toushi, app>>

NextRegression ==
    \/ Call
    \/ Impute
    \/ Fit
    \/ EvaluateModel
    \/ Standardize
    \/ BuildCoefTable
    \/ ReturnSuccess
    \/ Except
    \/ NextCall

SpecRegression == Init /\ [][NextRegression]_vars

(* ---------------------- the reruns of main(), by steps ----------------- *)
\* Streamlit runs main() again: the uploader holds a file or none
StartRerun ==
    /\ app.pc = "idle"
    /\ \E f \in Uploads :
         app' = [app EXCEPT !.pc = IF f = "none" THEN "display" ELSE "read_csv",
                            !.uploaded_file = f, !.shown = {},
                            !.failure = "none", !.run_button = FALSE]
    /\ UNCHANGED <<toushi, reg>>

\* df = pd.read_csv(..): raises on an unreadable file;  if df.empty: st.error
\* and return, which ends the rerun before the display
ReadCsv ==
    /\ app.pc = "read_csv"
    /\ \/ /\ app.uploaded_file = "unreadable"
          /\ app' = [app EXCEPT !.pc = "except", !.failure = "read_error",
                                !.failed_since = TRUE]
       \/ /\ app.uploaded_file = "empty"
          /\ app' = [app EXCEPT !.pc = "idle", !.failure = "empty_upload",
                                !.failed_since = TRUE]
       \/ /\ app.uploaded_file = "data"
          /\ \E d \in UploadedDatasets :
                app' = [app EXCEPT !.pc = "widgets", !.df = d]
    /\ UNCHANGED <<toushi, reg>>

\* the selectbox, the multiselect (the features exclude the target) and the
\* button; a widget call that raises goes to the except clause
SelectVariables ==
    /\ app.pc = "widgets"
    /\ \/ \E t \in Columns, S \in SUBSET Columns, b \in BOOLEAN :
            app' = [app EXCEPT !.pc = "run_button", !.target_var = t,
                               !.feature_vars = ListOf(S \ {t}),
                               !.run_button = b]
       \/ app' = [app EXCEPT !.pc = "except", !.failure = "processing_error",
                             !.failed_since = TRUE]
    /\ UNCHANGED <<toushi, reg>>

\* if run_button: a warning without a selection, else run_regression is called
RunButton ==
    /\ app.pc = "run_button"
    /\ IF ~app.run_button \/ Len(app.feature_vars) = 0
       THEN /\ app' = [app EXCEPT !.pc = "display"]
            /\ UNCHANGED reg
       ELSE /\ app' = [app EXCEPT !.pc = "regressing"]
            /\ reg' = [NoCall EXCEPT !.pc = "impute", !.df = app.df,
                                     !.target_var = app.target_var,
                                     !.feature_vars = app.feature_vars]
    /\ UNCHANGED toushi

\* results = run_regression(..) has returned: a success is stored in the
\* session state, an error is reported and the stored result deleted
StoreOrDelete ==
    /\ app.pc = "regressing"
    /\ reg.pc = "returned"
    /\ IF reg.result.status = "success"
       THEN app' = [app EXCEPT
                      !.pc = "display",
                      !.session_state = SetResults(@, reg.result),
                      !.failed_since = FALSE]
       ELSE app' = [app EXCEPT
                      !.pc = "display",
                      !.session_state = DelResults(@),
                      !.failure = "regression_error",
                      !.failed_since = TRUE]
    /\ reg' = NoCall
    /\ UNCHANGED toushi

\* except Exception as e: st.error(..) and the stored result is deleted
ExceptMain ==
    /\ app.pc = "except"
    /\ app' = [app EXCEPT !.pc = "display", !.session_state = DelResults(@)]
    /\ UNCHANGED <<toushi, reg>>

\* if 'analysis_results' in st.session_state: display_analysis_results(..)
Display ==
    /\ app.pc = "display"
    /\ app' = [app EXCEPT
                 !.pc = "idle",
                 !.shown = {kv[2] : kv \in
                               {x \in app.session_state :
                                   x[1] = "analysis_results"}}]
    /\ UNCHANGED <<toushi, reg>>

\* the steps of the run_regression call main() is waiting for
RegressionStep ==
    /\ app.pc = "regressing"
    /\ \/ Impute
       \/ Fit
       \/ EvaluateModel
       \/ Standardize
       \/ BuildCoefTable
       \/ ReturnSuccess
       \/ Except

NextMain ==
    \/ StartRerun
    \/ ReadCsv
    \/ SelectVariables
    \/ RunButton
    \/ StoreOrDelete
    \/ ExceptMain
    \/ Display
    \/ RegressionStep

SpecMain == Init /\ [][NextMain]_vars

(* ------------------------------ claims --------------------------------- *)
\* analyze_signals has returned a result in this run of the script
Returned == pc \in {"analyzed", "rendered"}

\* analyze_signals has ended in this run, by a return or by an exception
AnalysisEnded ==
    \/ Returned
    \/ pc = "error" /\ exception \in {"IndexError", "KeyError"}

Latest == Iloc(df, 1)

Previous == Iloc(df, 2)

Has(list, tag) == \E i \in 1..Len(list) : list[i][1] = tag

\* C1: whenever the long-term trend analyze_signals computed is not "up", the
\* returned score is 0, whatever buy rules hold on the input.
C1_NonUpTrendScoresZero ==
    (Returned /\ analysis_result.trends.long # "up")
        => analysis_result.score = 0

\* a result for a non-up long trend on an input with a volume-confirmed
\* golden cross, whose points are discarded
C1_Witness ==
    /\ Returned
    /\ analysis_result.trends.long \in {"down", "neutral"}
    /\ GoldenCross(Latest, Previous)
    /\ VolumeSurge(Latest)
    /\ analysis_result.score = 0

\* C2: a series of fewer than 200 bars yields an indicator table without rows,
\* and whenever the indicator table has fewer than 2 rows or the weekly table
\* fewer than 1, analyze_signals ends without raising an exception.
C2_ShortTableEndsWithoutException ==
    /\ (pc \notin {"start", "no_data", "downloaded"} /\ raw.n > 0
        /\ raw.n < SMA200_WINDOW) => Len(df) = 0
    /\ (AnalysisEnded /\ (Len(df) < 2 \/ Len(df_weekly) < 1))
        => (Returned /\ exception = "none")

\* the table the claim is replayed on, with the MACD columns of its last two
\* rows replaced (every other field equal)
WithMACD(table, pm, ps, lm, ls) ==
    [table EXCEPT ![Len(table)].MACD = lm, ![Len(table)].MACD_SIGNAL = ls,
                  ![Len(table) - 1].MACD = pm,
                  ![Len(table) - 1].MACD_SIGNAL = ps]

\* C3: with the long trend up and a golden cross between the previous and the
\* latest row, the buy list holds the golden-cross entry and the score is at
\* least 1 above the score of the same input with the crossing removed.
C3_GoldenCrossAddsAPoint ==
    (Returned /\ analysis_result.trends.long = "up"
     /\ GoldenCross(Latest, Previous))
        => /\ Has(analysis_result.signals.buy, "MACD_GOLDEN_CROSS")
           /\ \A pm, ps, lm, ls \in MACDValues :
                ~(pm < ps /\ lm > ls)
                    => analysis_result.score >=
                        analyze_signals(WithMACD(df, pm, ps, lm, ls),
                                        df_weekly).score + 1

\* an uptrend result where the cross comes on top of a band touch and an RSI
\* pullback, without a volume surge
C3_Witness ==
    /\ Returned
    /\ analysis_result.trends.long = "up"
    /\ GoldenCross(Latest, Previous)
    /\ BBLowerTouch(Latest) /\ RSIPullback(Latest) /\ ~VolumeSurge(Latest)
    /\ analysis_result.score = 3

\* C4: a latest close strictly below the latest SMA200 gives trend.long "down",
\* score 0 and the down-trend comment.
C4_BelowSMA200IsDowntrend ==
    (Returned /\ Latest.Close < Latest.SMA200)
        => /\ analysis_result.trends.long = "down"
           /\ analysis_result.score = 0
           /\ analysis_result.comment = "DOWNTREND_DISCOURAGED"

\* a result for a close below the SMA200 while the weekly MACD is positive and
\* a golden cross is on the input
C4_Witness ==
    /\ Returned
    /\ Latest.Close < Latest.SMA200
    /\ Iloc(df_weekly, 1).MACD > 0
    /\ GoldenCross(Latest, Previous)
    /\ analysis_result.comment = "DOWNTREND_DISCOURAGED"

\* C5: every returned score is an integer in 0..4, the star rating is `score`
\* filled glyphs followed by 4 - score empty ones, and the caller's lookup in
\* score_descriptions finds the score.
C5_ScoreAndStarsInRange ==
    /\ Returned =>
        /\ analysis_result.score \in 0..4
        /\ Len(analysis_result.star_rating) = 4
        /\ \A i \in 1..4 :
             analysis_result.star_rating[i] =
                IF i <= analysis_result.score THEN "filled" ELSE "empty"
        /\ analysis_result.score \in ScoreDescriptionKeys
    /\ exception # "KeyError"

\* the top score, rendered
C5_Witness ==
    /\ pc = "rendered"
    /\ analysis_result.score = 4
    /\ analysis_result.star_rating = <<"filled", "filled", "filled", "filled">>

\* calculate_indicators has returned in this run of the script
Calculated == pc = "indicators" \/ AnalysisEnded

\* the bar of the downloaded series behind row j of the indicator table (the
\* table keeps the trailing bars)
BarOf(j) == raw.n - Len(df) + j

\* the relative strength the RSI of bar i is computed from
RsUsed(i) == FillNa0(FloatDiv(Gain(raw, i), Loss(raw, i)))

\* C6 as stated: for every row whose trailing-14-bar average loss is 0, the
\* relative strength used is 0 and the RSI is 0, whether the average gain
\* is 0 or positive.
C6_ZeroLossGivesZeroRSI ==
    /\ \A j \in 1..Len(df) :
         Loss(raw, BarOf(j)) = 0
            => /\ RsUsed(BarOf(j)).kind = "num" /\ RsUsed(BarOf(j)).num = 0
               /\ df[j].RSI = 0
    /\ \A i \in 1..raw.n : Loss(raw, i) = 0 => RSIColumn(raw, i) = 0

\* C6 (amended): for every row whose trailing-14-bar average loss is 0, the
\* relative strength used is 0 and the RSI is 0 when the average gain is 0
\* too, and the relative strength is infinite and the RSI is 100 when the
\* average gain is positive.
C6_ZeroLossRSIFollowsGain ==
    /\ \A j \in 1..Len(df) :
         Loss(raw, BarOf(j)) = 0
            => IF Gain(raw, BarOf(j)) = 0
               THEN /\ RsUsed(BarOf(j)).kind = "num"
                    /\ RsUsed(BarOf(j)).num = 0
                    /\ df[j].RSI = 0
               ELSE /\ RsUsed(BarOf(j)).kind = "inf"
                    /\ df[j].RSI = 100
    /\ \A i \in 1..raw.n :
         Loss(raw, i) = 0
            => RSIColumn(raw, i) = IF Gain(raw, i) = 0 THEN 0 ELSE 100

\* an indicator table whose latest row has gains and no loss in its window
C6_Witness ==
    /\ Calculated
    /\ Len(df) > 0
    /\ Loss(raw, BarOf(Len(df))) = 0
    /\ Gain(raw, BarOf(Len(df))) > 0
    /\ Latest.RSI = 100

\* the trend the claim describes: "up" when the close is above the average
\* and the average above its value  back  bars before the latest row
TrendByBarsBack(close, sma, sma_back) ==
    IF close > sma /\ sma > sma_back THEN "up"
    ELSE IF close < sma THEN "down"
    ELSE "neutral"

\* C8: the mid trend is "up" exactly when latest close > latest SMA50 > the
\* SMA50 of the row 10 bars before the latest row, the short trend likewise
\* with the SMA20 of the row 5 bars before; otherwise "down" when the close
\* is below the average and "neutral" in the remaining cases.
C8_TrendsCompareTenAndFiveBarsBack ==
    (Returned /\ Len(df) > MID_ILOC)
        => /\ analysis_result.trends.mid =
                TrendByBarsBack(Latest.Close, Latest.SMA50,
                                df[Len(df) - MID_ILOC].SMA50)
           /\ analysis_result.trends.short =
                TrendByBarsBack(Latest.Close, Latest.SMA20,
                                df[Len(df) - SHORT_ILOC].SMA20)

\* the keys of the dict analyze_signals returns
ResultKeys ==
    {"raised", "star_rating", "score", "comment", "signals", "trends",
     "advice"}

\* C9: with at least 2 indicator rows and at least 1 weekly row
\* analyze_signals completes and returns a full result; it ends without a
\* result only below those row counts.
C9_TwoRowsSuffice ==
    /\ (AnalysisEnded /\ Len(df) >= 2 /\ Len(df_weekly) >= 1)
        => /\ Returned
           /\ exception = "none"
           /\ DOMAIN analysis_result = ResultKeys
           /\ DOMAIN analysis_result.trends = {"long", "mid", "short"}
    /\ (pc = "error" /\ exception = "IndexError")
        => (Len(df) < 2 \/ Len(df_weekly) < 1)

\* W: the Friday-anchored weeks from the first bar's to the last bar's; every
\* one of them holds a bar
WeeklyBars ==
    IF raw.n = 0 THEN 0 ELSE WeekOf(raw, raw.n) - WeekOf(raw, 1) + 1

\* C10 as stated: the returned weekly table has max(0, W - 25) rows.
C10_WeeklyTableDropsFirst25 ==
    Calculated => Len(df_weekly) = Max(0, WeeklyBars - (MACD_SLOW_SPAN - 1))

\* C10 (amended): the weekly table returned by calculate_indicators excludes
\* no weekly bar: for a daily series that resamples to W weekly bars it has W
\* rows, the first with a MACD of 0, so it is empty only when W = 0.
C10_WeeklyTableKeepsEveryBar ==
    Calculated
        => /\ Len(df_weekly) = WeeklyBars
           /\ Len(df_weekly) > 0 => df_weekly[1].MACD = 0

\* a series of fewer than 26 weekly bars with a weekly table that is not empty
C10_Witness ==
    /\ Calculated
    /\ WeeklyBars > 0
    /\ WeeklyBars < MACD_SLOW_SPAN
    /\ Len(df_weekly) = WeeklyBars

\* C7: run_regression never lets an exception escape; a call in which a
\* statement fails returns status "error" with a message, every other call
\* returns status "success" with model, mse, r2, coefficient table and
\* intercept.
C7_RunRegressionNeverRaises ==
    /\ reg.pc # "escaped"
    /\ reg.pc = "returned"
        => IF reg.raised # "none"
           THEN /\ reg.result.status = "error"
                /\ DOMAIN reg.result = {"status", "message"}
                /\ reg.result.message = ErrorMessage(reg.raised)
           ELSE /\ reg.result.status = "success"
                /\ {"model", "mse", "r2", "coef_df", "intercept"}
                      \subseteq DOMAIN reg.result
                /\ Len(reg.result.coef_df) = Len(reg.feature_vars)
                /\ \A i \in 1..Len(reg.feature_vars) :
                     /\ reg.feature_vars[i] \in Columns
                     /\ reg.df[reg.feature_vars[i]] \in {"numeric", "gaps"}
                     /\ reg.result.coef_df[i].name = reg.feature_vars[i]
                /\ reg.target_var \in Columns
                /\ reg.df[reg.target_var] \in {"numeric", "gaps"}

\* a call naming a feature that is no column of the dataset: the KeyError of
\* the imputation is returned as an error result
C7_Witness ==
    /\ reg.pc = "returned"
    /\ \E i \in 1..Len(reg.feature_vars) : reg.feature_vars[i] \notin Columns
    /\ reg.raised = "KeyError"
    /\ reg.raised_in = "impute"
    /\ reg.result.status = "error"

\* C11: a result whose sell list holds the stop-loss entry has the long trend
\* "down", score 0, the trend-unfavorable entry in the sell list and no
\* long-trend-favorable entry in the buy list; and every result holds exactly
\* one of the long-trend-favorable buy entry and the trend-unfavorable sell
\* entry.
C11_StopLossMeansDowntrend ==
    Returned
        => /\ Has(analysis_result.signals.sell, "STOP_LOSS_SMA200")
                => /\ Previous.Close > Previous.SMA200
                   /\ Latest.Close < Latest.SMA200
                   /\ analysis_result.trends.long = "down"
                   /\ analysis_result.score = 0
                   /\ Has(analysis_result.signals.sell, "TREND_UNFAVORABLE")
                   /\ ~Has(analysis_result.signals.buy, "LONG_TREND_OK")
           /\ Has(analysis_result.signals.buy, "LONG_TREND_OK")
                 # Has(analysis_result.signals.sell, "TREND_UNFAVORABLE")

\* a result with the stop-loss entry while the weekly MACD is still positive
C11_Witness ==
    /\ Returned
    /\ Has(analysis_result.signals.sell, "STOP_LOSS_SMA200")
    /\ Previous.Close > Previous.SMA200
    /\ Iloc(df_weekly, 1).MACD > 0
    /\ analysis_result.trends.long = "down"

\* C12: across the reruns of main(), a stored analysis result is displayed
\* only if no failure (empty upload, read or processing error, run_regression
\* error) has occurred since the run that stored it, and every rerun that
\* fails leaves no stored result behind.
C12_NoOldResultAfterFailure ==
    /\ app.shown # {} => ~app.failed_since
    /\ (app.pc = "idle" /\ app.failure # "none")
        => ~HasResults(app.session_state)

====
